---- MODULE Spec2Model ----
(***************************************************************************)
(* A model of the email etiquette trainer: the EmailAgent operations of    *)
(* email_agent.py, the storage transforms of grading_serialization.py and  *)
(* the Streamlit script of app.py.                                         *)
(*                                                                         *)
(* Python strings are sequences of one-character strings, so that          *)
(* str.strip() and the f-string formatting of _thread_to_text are          *)
(* computed character by character.  Python values of unknown type (the    *)
(* members of the parsed model output, of a stored record) are tagged      *)
(* records [t, i, s]: t is the Python type, i the number, s the text.      *)
(***************************************************************************)
EXTENDS Integers, Sequences, FiniteSets, TLC

VARIABLES
    scenario,       \* EmailAgent.scenario, fixed at construction
    backend,        \* what the text-generation backend answers, per task
    thread,         \* the thread argument of the call
    student_email,  \* the student's EmailMessage
    op,             \* the operation that ran last ("none" after construction)
    invocations,    \* the model invocations the last operation made, in order
    outcome,        \* how the last operation ended: a return value or a raise
    gr,             \* the GradingResult handed to grading_result_to_storage
    data,           \* the stored record handed to grading_result_from_storage
    session,        \* st.session_state of the Streamlit application
    rerun,          \* what the last rerun of the Streamlit script did
    evaluated,      \* history: the last evaluate_and_respond of the application
                    \* that returned, with the cache key and body it was run for
    stdin           \* the lines typed to the command-line program

vars == <<scenario, backend, thread, student_email, op, invocations, outcome,
          gr, data, session, rerun, evaluated, stdin>>

(***************************************************************************)
(* Bounds of the model.                                                    *)
(***************************************************************************)
MaxThread == 2
MaxScores == 2

(***************************************************************************)
(* Python values.                                                          *)
(***************************************************************************)
PyNone == [t |-> "NoneType", i |-> 0, s |-> <<>>]
PyInt(n) == [t |-> "int", i |-> n, s |-> <<>>]
PyStr(str) == [t |-> "str", i |-> 0, s |-> str]
\* a float, held in tenths: PyFloat(47) is 4.7
PyFloat(tenths) == [t |-> "float", i |-> tenths, s |-> <<>>]

\* the place of a key the dict does not have
Absent == [t |-> "absent", i |-> 0, s |-> <<>>]

NoList == [t |-> "absent", l |-> <<>>]

\* a parsed JSON document: a dict with the keys that are not absent, or a
\* value of another type
Doc(type, scores, overall_comment, revision_example) ==
    [t |-> type,
     keys |-> {k \in {"scores", "overall_comment", "revision_example"} :
                 \/ k = "scores" /\ scores # NoList
                 \/ k = "overall_comment" /\ overall_comment # Absent
                 \/ k = "revision_example" /\ revision_example # Absent},
     scores |-> scores, overall_comment |-> overall_comment,
     revision_example |-> revision_example]

EmptyDict == Doc("dict", NoList, Absent, Absent)

\* how a call ends
Return(v) == [kind |-> "return", exc |-> "", value |-> v]
Raise(e) == [kind |-> "raise", exc |-> e, value |-> <<>>]

(***************************************************************************)
(* Strings.                                                                *)
(***************************************************************************)
Whitespace == {" ", "\n", "\t"}

RECURSIVE LStrip(_)
LStrip(str) ==
    IF str # <<>> /\ Head(str) \in Whitespace THEN LStrip(Tail(str)) ELSE str

RECURSIVE RStrip(_)
RStrip(str) ==
    IF str # <<>> /\ str[Len(str)] \in Whitespace
    THEN RStrip(SubSeq(str, 1, Len(str) - 1))
    ELSE str

\* str.strip()
Strip(str) == RStrip(LStrip(str))

\* a mutant of Truthy: a whitespace-only body counts as no body
TruthyStripped(v) == v.t = "str" /\ Strip(v.s) # <<>>

\* bool(x) of an optional string, as in `if s.starter_email_body:`
Truthy(v) == v.t = "str" /\ v.s # <<>>

Digits == <<"0", "1", "2", "3", "4", "5", "6", "7", "8", "9">>

\* f"{idx}" of a non-negative integer
RECURSIVE DecStr(_)
DecStr(n) ==
    IF n < 10 THEN <<Digits[n + 1]>>
    ELSE DecStr(n \div 10) \o <<Digits[(n % 10) + 1]>>

\* sep.join(lines)
RECURSIVE Join(_, _)
Join(sep, lines) ==
    IF lines = <<>> THEN <<>>
    ELSE IF Len(lines) = 1 THEN lines[1]
    ELSE lines[1] \o sep \o Join(sep, Tail(lines))

\* the character U+2014 of the header line
EmDash == "U+2014"

NoPriorEmails ==
    <<"(", "n", "o", " ", "p", "r", "i", "o", "r", " ", "e", "m", "a", "i",
      "l", "s", " ", "y", "e", "t", ")">>
MessageWord == <<"M", "e", "s", "s", "a", "g", "e", " ">>
FromWord == <<" ", EmDash, " ", "F", "r", "o", "m", ":", " ">>
SubjectWord == <<" ", "|", " ", "S", "u", "b", "j", "e", "c", "t", ":", " ">>

\* a mutant of ThreadEntry: the body is used as it is, not trimmed
ThreadEntryRawBody(idx, message) ==
    LET header == Strip(MessageWord \o DecStr(idx) \o FromWord \o message.sender
                        \o SubjectWord \o message.subject)
    IN header \o <<"\n">> \o message.body \o <<"\n">>

\* one element of `lines` in _thread_to_text
ThreadEntry(idx, message) ==
    LET header == Strip(MessageWord \o DecStr(idx) \o FromWord \o message.sender
                        \o SubjectWord \o message.subject)
        body == Strip(message.body)
    IN header \o <<"\n">> \o body \o <<"\n">>

\* a mutant of ThreadToText: no placeholder for the empty thread
ThreadToTextNoPlaceholder(th) ==
    Strip(Join(<<"\n">>, [idx \in 1..Len(th) |-> ThreadEntry(idx, th[idx])]))

ThreadToText(th) ==
    IF th = <<>> THEN NoPriorEmails
    ELSE Strip(Join(<<"\n">>, [idx \in 1..Len(th) |-> ThreadEntry(idx, th[idx])]))

EmailMessage(sender, subject, body) ==
    [sender |-> sender, subject |-> subject, body |-> body]

(***************************************************************************)
(* Model invocation: chain.invoke(payload).  The payload is kept as the    *)
(* thread handed to the operation, its rendering and the student's text;   *)
(* the answer is the backend's for that task, a text or an exception that  *)
(* nothing in email_agent.py catches.                                      *)
(***************************************************************************)
Invocation(task, th, student) ==
    [task |-> task, thread |-> th, email_thread |-> ThreadToText(th),
     student_email |-> student]

\* a mutant of BackendFails: the failure is swallowed and the text used
NeverFails(answer) == FALSE

BackendFails(answer) == ~answer.ok

\* chain.invoke(payload): the invocation made and the text it gives, or the
\* backend's exception
Invoke(task, th, student, be) ==
    [invocations |-> <<Invocation(task, th, student)>>,
     outcome |-> IF BackendFails(be[task]) THEN Raise(be[task].exc)
                 ELSE Return(be[task].text)]

(***************************************************************************)
(* EmailAgent.build_starter_thread                                         *)
(***************************************************************************)
StarterMessage(s, body) ==
    <<EmailMessage(s.starter_sender_name, s.starter_subject, body)>>

\* the return statement, reached with the generated body unless invoke raised
StarterFrom(s, invoked) ==
    IF invoked.outcome.kind = "raise" THEN invoked
    ELSE [invoked EXCEPT !.outcome = Return(StarterMessage(s, invoked.outcome.value))]

BuildStarterThread(s, be) ==
    IF Truthy(s.starter_email_body)
    THEN [invocations |-> <<>>,
          outcome |-> Return(StarterMessage(s, s.starter_email_body.s))]
    ELSE StarterFrom(s, Invoke("counterpart_prompt", <<>>, <<>>, be))

(***************************************************************************)
(* EmailAgent.reply_as_counterpart                                         *)
(***************************************************************************)
ReplyAsCounterpart(th, be) == Invoke("counterpart_reply", th, <<>>, be)

(***************************************************************************)
(* The grading output.  The backend's text is kept as its leading and      *)
(* trailing whitespace and, between them, either a JSON document (held as  *)
(* the value json.loads gives for it) or text that is no JSON document.    *)
(* A dict is held as the set of its keys and the value under each key the  *)
(* code reads.                                                             *)
(***************************************************************************)
RawText(lead, valid, value, trail) ==
    [lead |-> lead, valid |-> valid, value |-> value, trail |-> trail]

\* raw_output = chain.invoke(payload).strip()
StripRaw(raw) == [raw EXCEPT !.lead = <<>>, !.trail = <<>>]

\* a mutant of JsonLoads: text that is no JSON counts as an empty object
JsonLoadsLenient(raw) == Return(IF raw.valid THEN raw.value ELSE EmptyDict)

\* json.loads(raw_output)
JsonLoads(raw) ==
    IF raw.valid THEN Return(raw.value) ELSE Raise("JSONDecodeError")

DigitChars == {Digits[k] : k \in 1..10}
DigitVal(c) == CHOOSE d \in 0..9 : Digits[d + 1] = c

RECURSIVE NumeralVal(_)
NumeralVal(str) ==
    IF str = <<>> THEN 0
    ELSE 10 * NumeralVal(SubSeq(str, 1, Len(str) - 1)) + DigitVal(str[Len(str)])

IsNumeral(str) == str # <<>> /\ \A k \in 1..Len(str) : str[k] \in DigitChars

\* int(x) of a str: surrounding whitespace and one sign are accepted
IntOfStr(str) ==
    LET body == Strip(str)
        signed == body # <<>> /\ Head(body) \in {"-", "+"}
        digits == IF signed THEN Tail(body) ELSE body
    IN IF ~IsNumeral(digits) THEN Raise("ValueError")
       ELSE IF signed /\ Head(body) = "-" THEN Return(0 - NumeralVal(digits))
       ELSE Return(NumeralVal(digits))

\* int(x)
IntOf(v) ==
    CASE v.t = "int" -> Return(v.i)
      [] v.t = "bool" -> Return(v.i)
      [] v.t = "float" ->
            Return(IF v.i >= 0 THEN v.i \div 10 ELSE 0 - ((0 - v.i) \div 10))
      [] v.t = "str" -> IntOfStr(v.s)
      [] OTHER -> Raise("TypeError")

RubricScoreResult(name, score, max_score) ==
    [name |-> name, score |-> score, max_score |-> max_score]

\* item.get("max_score", 5)
DefaultMaxScore == 5
GetMaxScore(item) ==
    IF "max_score" \in item.keys THEN item.max_score ELSE PyInt(DefaultMaxScore)

\* the loop body once int(item["score"]) and int(item.get("max_score", 5))
\* were asked for: the first of them that raises ends it, then item["name"]
EntryFrom(item, score, max_score) ==
    IF score.kind = "raise" THEN score
    ELSE IF max_score.kind = "raise" THEN max_score
    ELSE IF "name" \notin item.keys THEN Raise("KeyError")
    ELSE Return(RubricScoreResult(item.name, score.value, max_score.value))

\* one pass of the loop body over `item`: the RubricScoreResult, or the raise
ScoreEntry(item) ==
    IF item.t # "dict" THEN Raise("TypeError")
    ELSE IF "score" \notin item.keys THEN Raise("KeyError")
    ELSE EntryFrom(item, IntOf(item.score), IntOf(GetMaxScore(item)))

RECURSIVE ScoreLoop(_, _)

\* a mutant of ScoreNext: an entry that raises is skipped
ScoreNextSkips(rest, acc, e) ==
    IF e.kind = "raise" THEN ScoreLoop(rest, acc)
    ELSE ScoreLoop(rest, [scores |-> Append(acc.scores, e.value),
                          total_score |-> acc.total_score + e.value.score,
                          max_total_score |-> acc.max_total_score + e.value.max_score])

\* a mutant of ScoreNext: total_score is assigned, not added to
ScoreNextAssigns(rest, acc, e) ==
    IF e.kind = "raise" THEN e
    ELSE ScoreLoop(rest, [scores |-> Append(acc.scores, e.value),
                          total_score |-> e.value.score,
                          max_total_score |-> acc.max_total_score + e.value.max_score])

\* the end of one pass: the entry is appended and added to both totals
ScoreNext(rest, acc, e) ==
    IF e.kind = "raise" THEN e
    ELSE ScoreLoop(rest, [scores |-> Append(acc.scores, e.value),
                          total_score |-> acc.total_score + e.value.score,
                          max_total_score |-> acc.max_total_score + e.value.max_score])

\* the loop `for item in ...`: scores, total_score and max_total_score grow
\* entry by entry until the entries end or one raises
ScoreLoop(items, acc) ==
    IF items = <<>> THEN Return(acc)
    ELSE ScoreNext(Tail(items), acc, ScoreEntry(Head(items)))

\* data.get("scores", []), then what iterating it gives
GetScores(doc) ==
    IF "scores" \in doc.keys THEN doc.scores ELSE [t |-> "list", l |-> <<>>]

IterItems(v) ==
    CASE v.t = "list" -> Return(v.l)
      [] v.t = "dict" -> Return(v.l)      \* iterating a dict gives its keys
      [] OTHER -> Raise("TypeError")

RECURSIVE SumMaxScore(_)
SumMaxScore(scores) ==
    IF scores = <<>> THEN 0 ELSE Head(scores).max_score + SumMaxScore(Tail(scores))

RECURSIVE SumScore(_)
SumScore(scores) ==
    IF scores = <<>> THEN 0 ELSE Head(scores).score + SumScore(Tail(scores))

\* data.get(key, "").strip()
GetStripped(doc, key) ==
    LET v == IF key \in doc.keys THEN doc[key] ELSE PyStr(<<>>)
    IN IF v.t = "str" THEN Return(Strip(v.s)) ELSE Raise("AttributeError")

\* the OllamaLLM the agent holds
Llm == [model |-> "llama3", temperature |-> "0.2"]

ModelInfo(model_name, temperature) ==
    [keys |-> {"model_name", "temperature"},
     model_name |-> model_name, temperature |-> temperature]

GradingResult(scenario_name, scores, total_score, max_total_score, overall_comment, revision_example, model_info, raw_json) ==
    [scenario_name |-> scenario_name, scores |-> scores,
     total_score |-> total_score, max_total_score |-> max_total_score,
     overall_comment |-> overall_comment, revision_example |-> revision_example,
     model_info |-> model_info, raw_json |-> raw_json]

\* the fallback after the loop
MaxTotalScore(acc) ==
    IF acc.max_total_score = 0 /\ acc.scores # <<>>
    THEN SumMaxScore(acc.scores)
    ELSE acc.max_total_score

\* the GradingResult(...) call: the two .strip() calls run in order
BuildResult(s, doc, acc, comment, revision) ==
    IF comment.kind = "raise" THEN comment
    ELSE IF revision.kind = "raise" THEN revision
    ELSE Return(GradingResult(s.name, acc.scores, acc.total_score,
                    MaxTotalScore(acc), comment.value, revision.value,
                    ModelInfo(Llm.model, Llm.temperature), doc))

AfterLoop(s, doc, loop) ==
    IF loop.kind = "raise" THEN loop
    ELSE BuildResult(s, doc, loop.value, GetStripped(doc, "overall_comment"),
                     GetStripped(doc, "revision_example"))

OverItems(s, doc, items) ==
    IF items.kind = "raise" THEN items
    ELSE AfterLoop(s, doc, ScoreLoop(items.value,
                        [scores |-> <<>>, total_score |-> 0, max_total_score |-> 0]))

\* grade_student_email from `data = json.loads(raw_output)` on
ParseGrading(s, doc) ==
    IF doc.t # "dict" THEN Raise("AttributeError")
    ELSE OverItems(s, doc, IterItems(GetScores(doc)))

ParseLoaded(s, loaded) ==
    IF loaded.kind = "raise" THEN loaded ELSE ParseGrading(s, loaded.value)

\* grade_student_email after chain.invoke(payload)
ParseOutput(s, invoked) ==
    IF invoked.outcome.kind = "raise" THEN invoked
    ELSE [invoked EXCEPT
            !.outcome = ParseLoaded(s, JsonLoads(StripRaw(invoked.outcome.value)))]

(***************************************************************************)
(* EmailAgent.grade_student_email                                          *)
(***************************************************************************)
GradeStudentEmail(s, th, student_text, be) ==
    ParseOutput(s, Invoke("grade_student_email", th, Strip(student_text), be))

(***************************************************************************)
(* EmailAgent.evaluate_and_respond                                         *)
(***************************************************************************)
EvaluationAndReply(grading, counterpart_reply) ==
    [grading |-> grading, counterpart_reply |-> counterpart_reply]

\* the return statement, reached unless reply_as_counterpart raised
Replied(grading, reply) ==
    [invocations |-> grading.invocations \o reply.invocations,
     outcome |-> IF reply.outcome.kind = "raise" THEN reply.outcome
                 ELSE Return(EvaluationAndReply(grading.outcome.value,
                                                reply.outcome.value))]

\* a mutant of AfterGrading: the reply is requested before the grading failure
\* is looked at
AfterGradingRepliesAnyway(grading, full_thread, be) ==
    IF grading.outcome.kind = "raise"
    THEN [invocations |-> grading.invocations
                          \o ReplyAsCounterpart(full_thread, be).invocations,
          outcome |-> grading.outcome]
    ELSE Replied(grading, ReplyAsCounterpart(full_thread, be))

\* evaluate_and_respond after grade_student_email
AfterGrading(grading, full_thread, be) ==
    IF grading.outcome.kind = "raise" THEN grading
    ELSE Replied(grading, ReplyAsCounterpart(full_thread, be))

\* the call as its caller sees it: the invocations made, how it ended, and the
\* caller's prior_thread list after the call
SeenByCaller(call, prior_thread) ==
    [invocations |-> call.invocations, outcome |-> call.outcome,
     prior_thread |-> prior_thread]

\* a mutant of EvaluateAndRespond: the student's email is appended before grading
EvaluateAndRespondGradesFullThread(s, prior_thread, student, be) ==
    SeenByCaller(
        AfterGrading(GradeStudentEmail(s, prior_thread \o <<student>>, student.body, be),
                     prior_thread \o <<student>>, be),
        prior_thread)

\* prior_thread.append(student_email) once grading returned
AppendedOnceGraded(call, prior_thread, student) ==
    SeenByCaller(call, IF Len(call.invocations) = 2 THEN prior_thread \o <<student>>
                       ELSE prior_thread)

\* a mutant of EvaluateAndRespond: the student's email is appended to the
\* caller's list, not to a copy
EvaluateAndRespondAppendsInPlace(s, prior_thread, student, be) ==
    AppendedOnceGraded(
        AfterGrading(GradeStudentEmail(s, prior_thread, student.body, be),
                     prior_thread \o <<student>>, be),
        prior_thread, student)

\* full_thread = list(prior_thread) + [student_email] is a new list: the
\* caller's prior_thread is as it was
EvaluateAndRespond(s, prior_thread, student, be) ==
    SeenByCaller(
        AfterGrading(GradeStudentEmail(s, prior_thread, student.body, be),
                     prior_thread \o <<student>>, be),
        prior_thread)

(***************************************************************************)
(* grading_serialization.py.  A stored record is a dict: the set of its    *)
(* keys and the value under each key.                                      *)
(***************************************************************************)
StorageKeys ==
    {"version", "scenario_name", "rubric_scores", "total_score", "max_total_score",
     "overall_comment", "revision_example", "model_info", "raw_llm_output"}

ListOf(l) == [t |-> "list", l |-> l]

\* a dict with the keys name, score, max_score that are not Absent
Entry(name, score, max_score) ==
    [t |-> "dict",
     keys |-> {k \in {"name", "score", "max_score"} :
                 \/ k = "name" /\ name # Absent
                 \/ k = "score" /\ score # Absent
                 \/ k = "max_score" /\ max_score # Absent},
     name |-> name, score |-> score, max_score |-> max_score]

StoredRecord(keys, scenario_name, rubric_scores, total_score, max_total_score, overall_comment, revision_example, model_info, raw_llm_output) ==
    [keys |-> keys, version |-> 1, scenario_name |-> scenario_name,
     rubric_scores |-> rubric_scores, total_score |-> total_score,
     max_total_score |-> max_total_score, overall_comment |-> overall_comment,
     revision_example |-> revision_example, model_info |-> model_info,
     raw_llm_output |-> raw_llm_output]

\* a mutant of ToStorage: the raw model output is not kept
ToStorageWithoutRaw(g) ==
    StoredRecord(StorageKeys \ {"raw_llm_output"}, g.scenario_name,
        ListOf([k \in 1..Len(g.scores) |->
                  Entry(g.scores[k].name, PyInt(g.scores[k].score),
                        PyInt(g.scores[k].max_score))]),
        PyInt(g.total_score), PyInt(g.max_total_score),
        PyStr(g.overall_comment), PyStr(g.revision_example),
        g.model_info, g.raw_json)

\* grading_result_to_storage
ToStorage(g) ==
    StoredRecord(StorageKeys, g.scenario_name,
        ListOf([k \in 1..Len(g.scores) |->
                  Entry(g.scores[k].name, PyInt(g.scores[k].score),
                        PyInt(g.scores[k].max_score))]),
        PyInt(g.total_score), PyInt(g.max_total_score),
        PyStr(g.overall_comment), PyStr(g.revision_example),
        g.model_info, g.raw_json)

\* RubricScoreResult(name=item["name"], score=int(item["score"]),
\*                   max_score=int(item.get("max_score", 5)))
StoredEntryFrom(item, score, max_score) ==
    IF score.kind = "raise" THEN score
    ELSE IF max_score.kind = "raise" THEN max_score
    ELSE Return(RubricScoreResult(item.name, score.value, max_score.value))

StoredEntry(item) ==
    IF item.t # "dict" THEN Raise("TypeError")
    ELSE IF "name" \notin item.keys THEN Raise("KeyError")
    ELSE IF "score" \notin item.keys THEN Raise("KeyError")
    ELSE StoredEntryFrom(item, IntOf(item.score), IntOf(GetMaxScore(item)))

RECURSIVE StoredScores(_, _)

StoredNext(rest, scores, e) ==
    IF e.kind = "raise" THEN e ELSE StoredScores(rest, Append(scores, e.value))

\* the list comprehension over data.get("rubric_scores", [])
StoredScores(items, scores) ==
    IF items = <<>> THEN Return(scores)
    ELSE StoredNext(Tail(items), scores, StoredEntry(Head(items)))

GetRubricScores(rec) ==
    IF "rubric_scores" \in rec.keys THEN rec.rubric_scores ELSE ListOf(<<>>)

\* a mutant of StoredTotal: a missing total is 0
StoredTotalOrZero(rec, key, sum) ==
    IntOf(IF key \in rec.keys THEN rec[key] ELSE PyInt(0))

\* int(data.get(key, sum(...)))
StoredTotal(rec, key, sum) ==
    IntOf(IF key \in rec.keys THEN rec[key] ELSE PyInt(sum))

EmptyInfo == [keys |-> {}, model_name |-> "", temperature |-> ""]

\* the GradingResult(...) call: data["scenario_name"], then the two .strip()
RebuildResult(rec, scores, total_score, max_total_score, comment, revision) ==
    IF total_score.kind = "raise" THEN total_score
    ELSE IF max_total_score.kind = "raise" THEN max_total_score
    ELSE IF "scenario_name" \notin rec.keys THEN Raise("KeyError")
    ELSE IF comment.kind = "raise" THEN comment
    ELSE IF revision.kind = "raise" THEN revision
    ELSE Return(GradingResult(rec.scenario_name, scores,
                    total_score.value, max_total_score.value,
                    comment.value, revision.value,
                    IF "model_info" \in rec.keys THEN rec.model_info ELSE EmptyInfo,
                    IF "raw_llm_output" \in rec.keys THEN rec.raw_llm_output
                    ELSE EmptyDict))

FromScores(rec, scores) ==
    IF scores.kind = "raise" THEN scores
    ELSE RebuildResult(rec, scores.value,
            StoredTotal(rec, "total_score", SumScore(scores.value)),
            StoredTotal(rec, "max_total_score", SumMaxScore(scores.value)),
            GetStripped(rec, "overall_comment"),
            GetStripped(rec, "revision_example"))

FromItems(rec, items) ==
    IF items.kind = "raise" THEN items
    ELSE FromScores(rec, StoredScores(items.value, <<>>))

\* grading_result_from_storage
FromStorage(rec) == FromItems(rec, IterItems(GetRubricScores(rec)))

(***************************************************************************)
(* app.py: st.session_state and the helpers that read and write it.        *)
(***************************************************************************)
NoLatest == [present |-> FALSE]

\* st.session_state before the first run of the script: no key is set
NoSession ==
    [starter_cache |-> [k \in {} |-> <<>>], latest_result |-> NoLatest,
     draft_email |-> <<>>]

DefaultWord == <<"d", "e", "f", "a", "u", "l", "t">>

\* cache_key = f"{selected_file}|{selected_rubric}|{model_name}|{temperature}|
\*               {base_url or 'default'}", with base_url = base_url_raw.strip() or None
CacheKey(sel) ==
    LET base_url == Strip(sel.base_url_raw)
    IN Join(<<"|">>, <<sel.selected_file, sel.selected_rubric, sel.model_name,
                       sel.temperature,
                       IF base_url = <<>> THEN DefaultWord ELSE base_url>>)

\* _reset_starter_thread: cache.pop(cache_key, None)
ResetStarterThread(cache, cache_key) ==
    [k \in DOMAIN cache \ {cache_key} |-> cache[k]]

\* cache[cache_key] = agent.build_starter_thread(), unless it raised
CacheStarter(cache, cache_key, built) ==
    IF built.outcome.kind = "raise"
    THEN [cache |-> cache, outcome |-> built.outcome, built |-> TRUE]
    ELSE [cache |-> [k \in DOMAIN cache \cup {cache_key} |->
                        IF k = cache_key THEN built.outcome.value ELSE cache[k]],
          outcome |-> built.outcome, built |-> TRUE]

\* a mutant of EnsureStarterThread: the cache is not looked at
EnsureStarterThreadAlwaysBuilds(cache, s, be, cache_key) ==
    CacheStarter(cache, cache_key, BuildStarterThread(s, be))

\* _ensure_starter_thread: the cache after the call, how the call ended, and
\* whether build_starter_thread ran
EnsureStarterThread(cache, s, be, cache_key) ==
    IF cache_key \in DOMAIN cache
    THEN [cache |-> cache, outcome |-> Return(cache[cache_key]), built |-> FALSE]
    ELSE CacheStarter(cache, cache_key, BuildStarterThread(s, be))

\* _store_latest_result: the new value of st.session_state["latest_result"]
StoreLatestResult(cache_key, result, student_body) ==
    [present |-> TRUE, cache_key |-> cache_key, result |-> result,
     student_body |-> student_body]

\* a mutant of GetLatestResult: the stored key is not compared
GetLatestResultAnyKey(latest, cache_key) == latest

\* _get_latest_result: the stored result if it was stored under cache_key
GetLatestResult(latest, cache_key) ==
    IF latest.present /\ latest.cache_key = cache_key THEN latest ELSE NoLatest

StudentWord == <<"S", "t", "u", "d", "e", "n", "t">>
ReWord == <<"R", "e", ":", " ">>

\* what one run of the script did: the cache key it computed, what stopped it,
\* whether it called _reset_starter_thread and build_starter_thread, the thread
\* _ensure_starter_thread returned, what "Grade my email" did, what it rendered
Rerun(cache_key, stopped, reset, built, starter, evaluation, rendered) ==
    [cache_key |-> cache_key, stopped |-> stopped, reset |-> reset, built |-> built,
     starter |-> starter, evaluation |-> evaluation, rendered |-> rendered]

NoRerun == Rerun(<<>>, "", FALSE, FALSE, <<>>, "none", NoLatest)

NoCall == [invocations |-> <<>>, outcome |-> Raise(""), prior_thread |-> <<>>]

\* a mutant of AfterEvaluation: a failed attempt clears the stored result
AfterEvaluationClears(latest, cache_key, student_body, result) ==
    IF result.outcome.kind = "raise"
    THEN [latest |-> NoLatest, evaluation |-> "failed", call |-> result,
          starter_thread |-> result.prior_thread]
    ELSE [latest |-> StoreLatestResult(cache_key, result.outcome.value, student_body),
          evaluation |-> "stored", call |-> result,
          starter_thread |-> result.prior_thread]

\* the try/except/else around evaluate_and_respond: the new latest_result,
\* what happened, the call made, and the starter_thread list after it
AfterEvaluation(latest, cache_key, student_body, result) ==
    IF result.outcome.kind = "raise"
    THEN [latest |-> latest, evaluation |-> "failed", call |-> result,
          starter_thread |-> result.prior_thread]
    ELSE [latest |-> StoreLatestResult(cache_key, result.outcome.value, student_body),
          evaluation |-> "stored", call |-> result,
          starter_thread |-> result.prior_thread]

\* a mutant of GradeMyEmail: the draft is tested as typed, not trimmed
GradeMyEmailUntrimmed(latest, s, be, cache_key, starter_thread, student_body) ==
    IF student_body = <<>>
    THEN [latest |-> latest, evaluation |-> "warning", call |-> NoCall,
          starter_thread |-> starter_thread]
    ELSE AfterEvaluation(latest, cache_key, Strip(student_body),
            EvaluateAndRespond(s, starter_thread,
                EmailMessage(StudentWord, ReWord \o starter_thread[1].subject,
                             Strip(student_body)),
                be))

\* the "Grade my email" branch of main
GradeMyEmail(latest, s, be, cache_key, starter_thread, student_body) ==
    IF Strip(student_body) = <<>>
    THEN [latest |-> latest, evaluation |-> "warning", call |-> NoCall,
          starter_thread |-> starter_thread]
    ELSE AfterEvaluation(latest, cache_key, Strip(student_body),
            EvaluateAndRespond(s, starter_thread,
                EmailMessage(StudentWord, ReWord \o starter_thread[1].subject,
                             Strip(student_body)),
                be))

(***************************************************************************)
(* The inputs the operations are run on.                                   *)
(***************************************************************************)
SeqsUpTo(S, n) == UNION {[1..k -> S] : k \in 0..n}

Hi == <<"H", "i">>
PaddedHi == <<" ", "H", "i", "\n">>
ReText == <<"R", "e">>

\* a Scenario: the fields build_starter_thread and grade_student_email use
Scenarios ==
    [name : {PyStr(<<"m", "s">>)},
     starter_sender_name : {<<"M", "g", "r">>},
     starter_subject : {<<"S", "u">>},
     starter_email_body : {PyNone, PyStr(<<>>), PyStr(<<" ">>), PyStr(Hi),
                           PyStr(PaddedHi)}]

Messages ==
    {EmailMessage(<<"M", "g", "r">>, <<"S", "u">>, PaddedHi),
     EmailMessage(<<"A">>, <<>>, <<"\n">>),
     EmailMessage(<<"B">>, <<"s", " ">>, <<"a", "\n", "\n", "b", " ">>)}

Threads == SeqsUpTo(Messages, MaxThread)

StudentEmails ==
    {EmailMessage(<<"S", "t", "u", "d", "e", "n", "t">>, ReText, Hi),
     EmailMessage(<<"S", "t", "u", "d", "e", "n", "t">>, ReText, <<" ", "y", "o">>)}

\* what the backend may raise
BackendErrors == {"ConnectError", "ResponseError"}

EntryNames == {Absent, PyStr(<<"T">>)}
EntryScores == {Absent, PyInt(3), PyInt(5), PyStr(<<"4">>), PyStr(<<"x">>)}
EntryMaxScores == {Absent, PyInt(0), PyInt(4)}

Entries ==
    {Entry(name, score, max_score) :
        name \in EntryNames, score \in EntryScores, max_score \in EntryMaxScores}

\* a member of the scores array that is a number, not an object
NumberEntry == [t |-> "int", keys |-> {}, name |-> Absent, score |-> Absent,
                max_score |-> Absent]

\* the entry of the specification's end-to-end example, scaled: Tone 3/4
GoodEntry == Entry(PyStr(<<"T">>), PyInt(3), PyInt(4))

Comments == {Absent, PyStr(<<"o", "k">>), PyStr(<<" ", "o", "k", "\n">>), PyNone}

\* documents that differ in their scores member
DocsByScores ==
    {Doc("dict", ListOf(l), PyStr(<<" ", "o", "k", "\n">>), Absent) :
        l \in SeqsUpTo(Entries \cup {NumberEntry}, MaxScores)}
    \cup
    {Doc("dict", v, c, Absent) :
        v \in {NoList, [t |-> "NoneType", l |-> <<>>], [t |-> "dict", l |-> <<>>]},
        c \in {Absent, PyStr(<<"o", "k">>)}}

\* documents that differ in their text members, and documents that are no object
DocsByText ==
    {Doc("dict", ListOf(<<GoodEntry>>), c, r) : c \in Comments, r \in Comments}
    \cup
    {Doc(type, NoList, Absent, Absent) : type \in {"list", "int"}}

GoodDoc == Doc("dict", ListOf(<<GoodEntry>>), PyStr(<<"o", "k">>), PyStr(Hi))

Docs == DocsByScores \cup DocsByText \cup {GoodDoc}

Pads == {<<>>, <<"\n", " ">>}

\* the texts the backend answers a grading prompt with
GradingTexts ==
    {RawText(<<>>, TRUE, d, <<>>) : d \in Docs}
    \cup {RawText(lead, valid, GoodDoc, trail) :
            lead \in Pads, trail \in Pads, valid \in BOOLEAN}

Answer(ok, text, exc) == [ok |-> ok, text |-> text, exc |-> exc]

TextAnswers ==
    {Answer(TRUE, text, "") : text \in {Hi, PaddedHi}}
    \cup {Answer(FALSE, <<>>, e) : e \in BackendErrors}

GradingAnswers(texts) ==
    {Answer(TRUE, text, "") : text \in texts}
    \cup {Answer(FALSE, RawText(<<>>, FALSE, GoodDoc, <<>>), e) : e \in BackendErrors}

GoodText == RawText(<<>>, TRUE, GoodDoc, <<>>)

Backends(texts, graders) ==
    [counterpart_prompt : texts, counterpart_reply : texts,
     grade_student_email : graders]

\* the agent and the arguments of a call: each family varies one part of the
\* input widely and the rest a little
Fixture(s, be, th, student) ==
    [scenario |-> s, backend |-> be, thread |-> th, student_email |-> student]

Fixtures ==
    {Fixture(s, be, th, student) :
        s \in Scenarios, be \in Backends(TextAnswers, GradingAnswers({GoodText})),
        th \in {<<>>}, student \in {CHOOSE m \in StudentEmails : TRUE}}
    \cup
    {Fixture(s, be, th, student) :
        s \in {x \in Scenarios : x.starter_email_body = PyNone},
        be \in Backends({Answer(TRUE, Hi, ""), Answer(FALSE, <<>>, "ConnectError")},
                        GradingAnswers({GoodText, RawText(<<>>, FALSE, GoodDoc, <<>>)})),
        th \in Threads, student \in StudentEmails}
    \cup
    {Fixture(s, be, th, student) :
        s \in {x \in Scenarios : x.starter_email_body = PyStr(Hi)},
        be \in Backends({Answer(TRUE, Hi, "")}, GradingAnswers(GradingTexts)),
        th \in {<<CHOOSE m \in Messages : TRUE>>},
        student \in {CHOOSE m \in StudentEmails : TRUE}}

\* the inputs of the storage transforms
ScoreResults ==
    {RubricScoreResult(PyStr(<<"T">>), 3, 5), RubricScoreResult(PyStr(<<"C">>), 0, 0),
     RubricScoreResult(PyNone, 5, 4)}

GradingResults ==
    {GradingResult(PyStr(<<"m", "s">>), scores,
                   IF sums[1] THEN SumScore(scores) ELSE 7,
                   IF sums[2] THEN SumMaxScore(scores) ELSE 1,
                   overall_comment, revision_example,
                   ModelInfo(Llm.model, Llm.temperature), raw_json) :
        scores \in SeqsUpTo(ScoreResults, MaxScores),
        sums \in BOOLEAN \X BOOLEAN,
        overall_comment \in {<<>>, <<"o", "k">>, <<" ", "o", "k", "\n">>},
        revision_example \in {Hi, PaddedHi},
        raw_json \in {GoodDoc, EmptyDict}}

GoodResult ==
    GradingResult(PyStr(<<"m", "s">>), <<RubricScoreResult(PyStr(<<"T">>), 3, 4)>>,
                  3, 4, <<"o", "k">>, Hi, ModelInfo(Llm.model, Llm.temperature),
                  GoodDoc)

StoredEntries ==
    {Entry(PyStr(<<"T">>), PyInt(3), PyInt(4)), Entry(PyStr(<<"T">>), PyInt(5), Absent),
     Entry(Absent, PyInt(3), PyInt(4)), Entry(PyStr(<<"T">>), PyStr(<<"x">>), PyInt(4))}

StoredRecords ==
    {StoredRecord(StorageKeys \ missing, PyStr(<<"m", "s">>), rubric_scores,
                  total_score, PyInt(1), overall_comment, PyStr(Hi),
                  ModelInfo(Llm.model, Llm.temperature), GoodDoc) :
        missing \in SUBSET {"total_score", "max_total_score", "scenario_name",
                            "rubric_scores", "model_info"},
        rubric_scores \in {ListOf(l) : l \in SeqsUpTo(StoredEntries, MaxScores)}
                          \cup {[t |-> "NoneType", l |-> <<>>]},
        total_score \in {PyInt(7), PyStr(<<"7">>), PyNone},
        overall_comment \in {PyStr(<<" ", "o", "k", "\n">>), PyNone}}

GoodRecord ==
    StoredRecord(StorageKeys, PyStr(<<"m", "s">>),
                 ListOf(<<Entry(PyStr(<<"T">>), PyInt(3), PyInt(4))>>),
                 PyInt(3), PyInt(4), PyStr(<<"o", "k">>), PyStr(Hi),
                 ModelInfo(Llm.model, Llm.temperature), GoodDoc)

StorageFixtures ==
    {[gr |-> g, data |-> GoodRecord] : g \in GradingResults}
    \cup {[gr |-> GoodResult, data |-> d] : d \in StoredRecords}

GoodFixture ==
    Fixture(CHOOSE s \in Scenarios : s.starter_email_body = PyStr(Hi),
            [counterpart_prompt |-> Answer(TRUE, Hi, ""),
             counterpart_reply |-> Answer(TRUE, Hi, ""),
             grade_student_email |-> Answer(TRUE, GoodText, "")],
            <<>>, CHOOSE m \in StudentEmails : TRUE)

Init ==
    /\ \E f \in Fixtures :
        /\ scenario = f.scenario
        /\ backend = f.backend
        /\ thread = f.thread
        /\ student_email = f.student_email
    /\ op = "none"
    /\ invocations = <<>>
    /\ outcome = Return(<<>>)
    /\ gr = GoodResult
    /\ data = GoodRecord
    /\ session = NoSession
    /\ rerun = NoRerun
    /\ evaluated = NoLatest
    /\ stdin = <<>>

Ran(name, r) ==
    /\ op' = name
    /\ invocations' = r.invocations
    /\ outcome' = r.outcome
    /\ UNCHANGED <<scenario, backend, thread, student_email, gr, data, session, rerun,
                   evaluated, stdin>>

CallThreadToText ==
    Ran("_thread_to_text",
        [invocations |-> <<>>, outcome |-> Return(ThreadToText(thread))])

CallBuildStarterThread ==
    Ran("build_starter_thread", BuildStarterThread(scenario, backend))

CallReplyAsCounterpart ==
    Ran("reply_as_counterpart", ReplyAsCounterpart(thread, backend))

CallGradeStudentEmail ==
    Ran("grade_student_email",
        GradeStudentEmail(scenario, thread, student_email.body, backend))

\* the caller's list is the thread of the next call
CallEvaluateAndRespond ==
    \E r \in {EvaluateAndRespond(scenario, thread, student_email, backend)} :
        /\ op' = "evaluate_and_respond"
        /\ invocations' = r.invocations
        /\ outcome' = r.outcome
        /\ thread' = r.prior_thread
        /\ UNCHANGED <<scenario, backend, student_email, gr, data, session, rerun,
                       evaluated, stdin>>

Next ==
    \/ CallThreadToText
    \/ CallBuildStarterThread
    \/ CallReplyAsCounterpart
    \/ CallGradeStudentEmail
    \/ CallEvaluateAndRespond

Spec == Init /\ [][Next]_vars

(***************************************************************************)
(* The storage transforms: a GradingResult is written to a record, a       *)
(* record is read back.                                                    *)
(***************************************************************************)
StorageInit ==
    /\ \E f \in StorageFixtures :
        /\ gr = f.gr
        /\ data = f.data
    /\ scenario = GoodFixture.scenario
    /\ backend = GoodFixture.backend
    /\ thread = GoodFixture.thread
    /\ student_email = GoodFixture.student_email
    /\ op = "none"
    /\ invocations = <<>>
    /\ outcome = Return(<<>>)
    /\ session = NoSession
    /\ rerun = NoRerun
    /\ evaluated = NoLatest
    /\ stdin = <<>>

CallToStorage ==
    /\ op' = "grading_result_to_storage"
    /\ data' = ToStorage(gr)
    /\ outcome' = Return(data')
    /\ UNCHANGED <<scenario, backend, thread, student_email, invocations, gr,
                   session, rerun, evaluated, stdin>>

CallFromStorage ==
    /\ op' = "grading_result_from_storage"
    /\ outcome' = FromStorage(data)
    /\ UNCHANGED <<scenario, backend, thread, student_email, invocations, gr, data,
                   session, rerun, evaluated, stdin>>

StorageNext ==
    \/ CallToStorage
    \/ CallFromStorage

StorageSpec == StorageInit /\ [][StorageNext]_vars

(***************************************************************************)
(* The Streamlit application: every interaction runs main() from the top.  *)
(* A run is given the sidebar's selection, the button pressed, the text of *)
(* the draft area and what the backend answers during the run.             *)
(***************************************************************************)
Selection(selected_file, base_url_raw) ==
    [selected_file |-> selected_file, selected_rubric |-> <<"r">>,
     model_name |-> <<"m">>, temperature |-> <<"0", ".", "2">>,
     base_url_raw |-> base_url_raw]

Selections ==
    {Selection(<<"a">>, <<>>), Selection(<<"b">>, <<>>), Selection(<<"b">>, <<" ">>),
     Selection(<<"b">>, <<"u">>)}

\* load_scenario_cached(selected_file): a has a pre-authored starter body,
\* b has none
AppScenario(selected_file) ==
    [name |-> PyStr(selected_file), starter_sender_name |-> <<"M", "g", "r">>,
     starter_subject |-> <<"S", "u">>,
     starter_email_body |-> IF selected_file = <<"a">> THEN PyStr(Hi) ELSE PyNone]

StarterAnswers ==
    {Answer(TRUE, Hi, ""), Answer(TRUE, PaddedHi, ""),
     Answer(FALSE, <<>>, "ConnectError")}

AppBackends ==
    [counterpart_prompt : StarterAnswers,
     counterpart_reply : {Answer(TRUE, Hi, ""), Answer(FALSE, <<>>, "ConnectError")},
     grade_student_email : {Answer(TRUE, GoodText, ""),
                            Answer(TRUE, RawText(<<>>, FALSE, GoodDoc, <<>>), "")}]

\* the backends of a run that grades nothing
StarterBackends ==
    {[counterpart_prompt |-> a, counterpart_reply |-> Answer(TRUE, Hi, ""),
      grade_student_email |-> Answer(TRUE, GoodText, "")] : a \in StarterAnswers}

Drafts == {<<>>, <<" ">>, <<" ", "y", "o">>}

Buttons == {"none", "regenerate", "grade"}

\* what stops the script before the agent is used
FailedStartups == {"no_scenarios", "no_rubrics", "agent_error"}

AppInit ==
    /\ session = NoSession
    /\ rerun = NoRerun
    /\ evaluated = NoLatest
    /\ stdin = <<>>
    /\ scenario = GoodFixture.scenario
    /\ backend = GoodFixture.backend
    /\ thread = GoodFixture.thread
    /\ student_email = GoodFixture.student_email
    /\ op = "none"
    /\ invocations = <<>>
    /\ outcome = Return(<<>>)
    /\ gr = GoodResult
    /\ data = GoodRecord

\* main() from the starter thread on
MainWithStarter(s, be, cache_key, button, student_body, ensured) ==
    \E graded \in {IF button = "grade"
                   THEN GradeMyEmail(session.latest_result, s, be, cache_key,
                                     ensured.outcome.value, student_body)
                   ELSE [latest |-> session.latest_result, evaluation |-> "none",
                         call |-> NoCall,
                         starter_thread |-> ensured.outcome.value]} :
        \* starter_thread is the list object the cache holds under cache_key
        /\ session' = [starter_cache |->
                            [ensured.cache EXCEPT ![cache_key] = graded.starter_thread],
                       latest_result |-> graded.latest,
                       draft_email |-> student_body]
        /\ rerun' = Rerun(cache_key, "", button = "regenerate", ensured.built,
                          ensured.outcome.value, graded.evaluation,
                          GetLatestResult(graded.latest, cache_key))
        /\ evaluated' =
                IF graded.call.outcome.kind = "return"
                THEN StoreLatestResult(cache_key, graded.call.outcome.value,
                                       Strip(student_body))
                ELSE evaluated

\* main(): one run of the script
Main(sel, startup, button, student_body, be) ==
    LET cache_key == CacheKey(sel)
        s == AppScenario(sel.selected_file)
        reset == IF button = "regenerate"
                 THEN ResetStarterThread(session.starter_cache, cache_key)
                 ELSE session.starter_cache
    IN IF startup \in {"no_scenarios", "no_rubrics"}
       THEN /\ rerun' = Rerun(<<>>, startup, FALSE, FALSE, <<>>, "none", NoLatest)
            /\ UNCHANGED <<session, evaluated>>
       ELSE IF startup = "agent_error"
       THEN /\ session' = [session EXCEPT !.starter_cache = reset]
            /\ rerun' = Rerun(cache_key, startup, button = "regenerate", FALSE, <<>>,
                              "none", NoLatest)
            /\ UNCHANGED evaluated
       ELSE \E ensured \in {EnsureStarterThread(reset, s, be, cache_key)} :
            IF ensured.outcome.kind = "raise"
            THEN /\ session' = [session EXCEPT !.starter_cache = ensured.cache]
                 /\ rerun' = Rerun(cache_key, "starter_error", button = "regenerate",
                                   ensured.built, <<>>, "none", NoLatest)
                 /\ UNCHANGED evaluated
            ELSE MainWithStarter(s, be, cache_key, button, student_body, ensured)

Untouched ==
    UNCHANGED <<scenario, backend, thread, student_email, op, invocations, outcome,
                gr, data, stdin>>

\* a run that stops before the agent is used
RerunStopsEarly ==
    /\ \E sel \in Selections, startup \in FailedStartups, button \in Buttons :
          Main(sel, startup, button, <<>>, GoodFixture.backend)
    /\ Untouched

\* a run no button started: a first visit, a changed selection, an edited draft
RerunView ==
    /\ \E sel \in Selections, student_body \in Drafts, be \in StarterBackends :
          Main(sel, "ok", "none", student_body, be)
    /\ Untouched

\* "Regenerate starter email"
RerunRegenerate ==
    /\ \E sel \in Selections, student_body \in Drafts, be \in StarterBackends :
          Main(sel, "ok", "regenerate", student_body, be)
    /\ Untouched

\* "Grade my email"
RerunGrade ==
    /\ \E sel \in Selections, student_body \in Drafts, be \in AppBackends :
          Main(sel, "ok", "grade", student_body, be)
    /\ Untouched

AppNext ==
    \/ RerunStopsEarly
    \/ RerunView
    \/ RerunRegenerate
    \/ RerunGrade

AppSpec == AppInit /\ [][AppNext]_vars

(***************************************************************************)
(* main.py, the command-line program: the starter thread is built, the     *)
(* student's reply is read from standard input, then graded and answered.  *)
(* Standard input is the lines typed; after the last of them input()       *)
(* raises EOFError.                                                        *)
(***************************************************************************)
\* the loop of _prompt_student_email: the lines kept, up to the end of the
\* input or the first line that is "." once trimmed
RECURSIVE ReadLines(_, _)
ReadLines(input, lines) ==
    IF input = <<>> THEN lines
    ELSE IF Strip(Head(input)) = <<".">> THEN lines
    ELSE ReadLines(Tail(input), Append(lines, Head(input)))

\* the end of _prompt_student_email, from `body = "\n".join(lines).strip()`
MessageOrExit(reply_subject, body) ==
    IF body = <<>> THEN Raise("SystemExit")
    ELSE Return(EmailMessage(StudentWord, ReWord \o reply_subject, body))

\* _prompt_student_email
PromptStudentEmail(reply_subject, input) ==
    MessageOrExit(reply_subject, Strip(Join(<<"\n">>, ReadLines(input, <<>>))))

\* main from step 5 on: the results are printed, the grading is converted with
\* grading_result_to_storage and the record printed
CliReport(starter, call) ==
    [invocations |-> starter.invocations \o call.invocations,
     outcome |-> IF call.outcome.kind = "raise" THEN call.outcome
                 ELSE Return(ToStorage(call.outcome.value.grading))]

\* main from step 4 on
CliAfterPrompt(s, be, starter, prompted) ==
    IF prompted.kind = "raise"
    THEN [invocations |-> starter.invocations, outcome |-> prompted]
    ELSE CliReport(starter,
            EvaluateAndRespond(s, starter.outcome.value, prompted.value, be))

\* main from step 3 on
CliAfterStarter(s, be, starter, input) ==
    IF starter.outcome.kind = "raise" THEN starter
    ELSE CliAfterPrompt(s, be, starter,
            PromptStudentEmail(starter.outcome.value[1].subject, input))

\* main() of main.py: no exception is caught
CliMain(s, be, input) == CliAfterStarter(s, be, BuildStarterThread(s, be), input)

BlankLine == <<" ">>
DotLine == <<" ", ".">>
YoLine == <<" ", "y", "o">>

\* what is typed: nothing, blank lines, an early ".", text
StdinInputs ==
    {<<>>, <<DotLine>>, <<BlankLine>>, <<BlankLine, <<>>, DotLine>>,
     <<BlankLine, DotLine, YoLine>>, <<YoLine>>, <<YoLine, BlankLine, Hi, DotLine>>}

\* the scenario the program loads, with or without a pre-authored starter body
CliScenarios == {AppScenario(<<"a">>), AppScenario(<<"b">>)}

\* one run of the command-line program
RunCli ==
    \E s \in CliScenarios, be \in AppBackends, input \in StdinInputs :
        \E run \in {CliMain(s, be, input)} :
            /\ scenario' = s
            /\ backend' = be
            /\ stdin' = input
            /\ op' = "main"
            /\ invocations' = run.invocations
            /\ outcome' = run.outcome
            /\ UNCHANGED <<thread, student_email, gr, data, session, rerun, evaluated>>

\* a process runs the Streamlit script again and again
RunApp == op = "none" /\ AppNext

\* a process runs the command-line program
RunMain == session = NoSession /\ rerun = NoRerun /\ RunCli

\* the two programs of the repository that take a student's email: a process
\* is one or the other
ProgramNext ==
    \/ RunApp
    \/ RunMain

ProgramSpec == AppInit /\ [][ProgramNext]_vars

(***************************************************************************)
(* Claims about the EmailAgent operations, checked under Spec.             *)
(***************************************************************************)
GradingAnswer == backend.grade_student_email

\* the backend answered the grading prompt with a JSON document
AnsweredJson == GradingAnswer.ok /\ GradingAnswer.text.valid

WellFormedEntry(e) ==
    /\ e.t = "dict"
    /\ {"name", "score"} \subseteq e.keys
    /\ e.name.t = "str"
    /\ e.score.t = "int"
    /\ "max_score" \in e.keys => e.max_score.t = "int"

WellFormedDoc(d) ==
    /\ d.t = "dict"
    /\ "scores" \in d.keys
    /\ d.scores.t = "list"
    /\ Len(d.scores.l) >= 1
    /\ \A k \in 1..Len(d.scores.l) : WellFormedEntry(d.scores.l[k])
    /\ "overall_comment" \in d.keys => d.overall_comment.t = "str"
    /\ "revision_example" \in d.keys => d.revision_example.t = "str"

EntryMax(e) == IF "max_score" \in e.keys THEN e.max_score.i ELSE 5

RECURSIVE EntryScoreSum(_)
EntryScoreSum(l) ==
    IF l = <<>> THEN 0 ELSE Head(l).score.i + EntryScoreSum(Tail(l))

RECURSIVE EntryMaxSum(_)
EntryMaxSum(l) ==
    IF l = <<>> THEN 0 ELSE EntryMax(Head(l)) + EntryMaxSum(Tail(l))

\* C1: for well-formed model JSON with at least one scores entry,
\* grade_student_email returns a GradingResult whose total_score is the sum of
\* the entries' scores, whose max_total_score is the sum of the entries'
\* max_score (5 where an entry omits it), with one RubricScoreResult per entry
\* in the entries' order.
C1_TotalsAreSums ==
    (op = "grade_student_email" /\ AnsweredJson
        /\ WellFormedDoc(GradingAnswer.text.value))
    => LET l == GradingAnswer.text.value.scores.l
           g == outcome.value
       IN /\ outcome.kind = "return"
          /\ g.total_score = EntryScoreSum(l)
          /\ g.max_total_score = EntryMaxSum(l)
          /\ Len(g.scores) = Len(l)
          /\ \A k \in 1..Len(l) :
                g.scores[k] = RubricScoreResult(l[k].name, l[k].score.i, EntryMax(l[k]))

C1_Witness ==
    /\ op = "grade_student_email" /\ AnsweredJson
    /\ WellFormedDoc(GradingAnswer.text.value)
    /\ Len(GradingAnswer.text.value.scores.l) = 2
    /\ "max_score" \notin GradingAnswer.text.value.scores.l[1].keys
    /\ GradingAnswer.text.value.scores.l[1].score.i = 5
    /\ outcome.kind = "return"
    /\ outcome.value.total_score = 8
    /\ outcome.value.max_total_score = 9

\* the backend answered the grading prompt with text that, trimmed, is no JSON
AnsweredNotJson == GradingAnswer.ok /\ ~GradingAnswer.text.valid

\* C3 as amended: when the trimmed grading output is not valid JSON,
\* grade_student_email raises the JSON decoder's own error, JSONDecodeError,
\* and returns no GradingResult.
C3_NotJsonRaisesDecodeError ==
    (op = "grade_student_email" /\ AnsweredNotJson)
    => outcome = Raise("JSONDecodeError")

\* C3 as stated: the error raised is a GradingFormatError.
C3_RaisesGradingFormatError ==
    (op = "grade_student_email" /\ AnsweredNotJson)
    => (outcome.kind = "raise" /\ outcome.exc = "GradingFormatError")

C3_Witness ==
    /\ op = "grade_student_email" /\ AnsweredNotJson
    /\ GradingAnswer.text.lead # <<>>
    /\ outcome.kind = "raise"

\* C4: with a non-empty starter_email_body, every call of build_starter_thread
\* invokes the model zero times and returns exactly one message: the starter
\* sender, the starter subject and the body exactly as authored.
C4_CannedStarterNeverInvokes ==
    (op = "build_starter_thread" /\ scenario.starter_email_body.t = "str"
        /\ scenario.starter_email_body.s # <<>>)
    => /\ invocations = <<>>
       /\ outcome = Return(<<EmailMessage(scenario.starter_sender_name,
                                          scenario.starter_subject,
                                          scenario.starter_email_body.s)>>)

C4_Witness ==
    /\ op = "build_starter_thread"
    /\ scenario.starter_email_body = PyStr(<<" ">>)
    /\ ~backend.counterpart_prompt.ok
    /\ invocations = <<>>
    /\ outcome.kind = "return"

\* C5: in evaluate_and_respond the grading invocation comes first and no reply
\* invocation precedes it; grading sees exactly prior_thread, the reply sees
\* prior_thread followed by the student's email.
C5_GradingBeforeReply ==
    op = "evaluate_and_respond"
    => /\ Len(invocations) >= 1
       /\ invocations[1].task = "grade_student_email"
       /\ invocations[1].thread = thread
       /\ invocations[1].email_thread = ThreadToText(thread)
       /\ \A k \in 1..Len(invocations) :
            invocations[k].task = "counterpart_reply"
            => /\ k = 2
               /\ invocations[k].thread = thread \o <<student_email>>
               /\ invocations[k].thread[Len(thread) + 1] = student_email
               /\ invocations[k].email_thread = ThreadToText(thread \o <<student_email>>)
       /\ outcome.kind = "return" => Len(invocations) = 2
       /\ Len(invocations) = 2 => invocations[2].task = "counterpart_reply"

C5_Witness ==
    /\ op = "evaluate_and_respond"
    /\ Len(thread) = MaxThread
    /\ Len(invocations) = 2
    /\ outcome.kind = "return"

\* the grading step of evaluate_and_respond fails on these inputs: the backend
\* fails, the text is no JSON, or the document does not parse
GradingStepFails ==
    \/ ~GradingAnswer.ok
    \/ ~GradingAnswer.text.valid
    \/ ParseGrading(scenario, GradingAnswer.text.value).kind = "raise"

TasksOf(invs) == [k \in 1..Len(invs) |-> invs[k].task]

\* C6: nothing retries.  build_starter_thread, reply_as_counterpart and
\* grade_student_email invoke the model at most once per call; when the grading
\* step of evaluate_and_respond fails, the failure is the call's outcome, the
\* reply is never requested and no EvaluationAndReply is returned.
C6_NoRetry ==
    /\ op \in {"build_starter_thread", "reply_as_counterpart", "grade_student_email"}
        => Len(invocations) <= 1
    /\ op = "evaluate_and_respond"
        => /\ TasksOf(invocations) \in {<<"grade_student_email">>,
                                        <<"grade_student_email", "counterpart_reply">>}
           /\ GradingStepFails
                => /\ outcome.kind = "raise"
                   /\ TasksOf(invocations) = <<"grade_student_email">>

C6_Witness ==
    /\ op = "evaluate_and_respond"
    /\ GradingAnswer.ok /\ GradingAnswer.text.valid /\ GradingStepFails
    /\ backend.counterpart_reply.ok
    /\ outcome.kind = "raise"
    /\ Len(invocations) = 1

\* the call's last invocation was answered by a backend failure
LastInvocationFailed ==
    /\ op \in {"build_starter_thread", "reply_as_counterpart", "grade_student_email"}
    /\ invocations # <<>>
    /\ ~backend[invocations[Len(invocations)].task].ok

\* C7 as amended: a backend failure during the invocation made by
\* build_starter_thread, reply_as_counterpart or grade_student_email reaches the
\* caller as the backend's own exception, unchanged; it is never suppressed or
\* turned into a return value.
C7_BackendFailurePropagates ==
    LastInvocationFailed
    => outcome = Raise(backend[invocations[Len(invocations)].task].exc)

\* C7 as stated: the failure reaches the caller as a ModelInvocationError.
C7_RaisesModelInvocationError ==
    LastInvocationFailed
    => (outcome.kind = "raise" /\ outcome.exc = "ModelInvocationError")

C7_Witness ==
    /\ LastInvocationFailed
    /\ op = "build_starter_thread"
    /\ outcome = Raise("ResponseError")

IsPrefix(p, str) == Len(p) <= Len(str) /\ SubSeq(str, 1, Len(p)) = p

\* C8: the empty thread serializes to exactly "(no prior emails yet)"; a
\* non-empty thread never does, its text begins with the header "Message 1".
C8_EmptyThreadPlaceholder ==
    op = "_thread_to_text"
    => /\ thread = <<>> => outcome.value = NoPriorEmails
       /\ thread # <<>>
            => /\ outcome.value # NoPriorEmails
               /\ IsPrefix(MessageWord \o <<"1", " ">>, outcome.value)

C8_Witness ==
    /\ op = "_thread_to_text"
    /\ thread = <<>>
    /\ Len(outcome.value) = 21

\* the parsed grading output is an object whose scores member is an array
HasScoresArray(d) == d.t = "dict" /\ "scores" \in d.keys /\ d.scores.t = "list"

LacksName(e) == e.t = "dict" /\ "name" \notin e.keys
ScoreMissing(e) == e.t = "dict" /\ "score" \notin e.keys
ScoreNotCoercible(e) ==
    e.t = "dict" /\ "score" \in e.keys /\ IntOf(e.score).kind = "raise"

DefectiveEntry(e) == LacksName(e) \/ ScoreMissing(e) \/ ScoreNotCoercible(e)

\* the grading output is valid JSON and some entry of its scores array lacks a
\* name, has no score, or has a score int() rejects
AnsweredDefectiveEntry ==
    /\ AnsweredJson
    /\ HasScoresArray(GradingAnswer.text.value)
    /\ \E k \in 1..Len(GradingAnswer.text.value.scores.l) :
            DefectiveEntry(GradingAnswer.text.value.scores.l[k])

\* C11 as amended: when the grading output is valid JSON and some scores entry
\* lacks a name, or has a score that is missing or not integer-coercible,
\* grade_student_email raises the failing Python operation's own error and
\* returns no GradingResult: KeyError for a missing score or name, the error of
\* int() (ValueError for a non-numeric string) for a score it rejects.
C11_DefectiveEntryRaisesPythonError ==
    (op = "grade_student_email" /\ AnsweredDefectiveEntry)
    => LET e == GradingAnswer.text.value.scores.l[1]
       IN /\ outcome.kind = "raise"
          /\ outcome.exc \in {"KeyError", "ValueError", "TypeError"}
          /\ ScoreMissing(e) => outcome.exc = "KeyError"
          /\ ScoreNotCoercible(e) => outcome.exc = IntOf(e.score).exc
          /\ (LacksName(e) /\ ~ScoreMissing(e) /\ ~ScoreNotCoercible(e))
                => outcome.exc = "KeyError"

\* C11 as stated: the error raised is a GradingFormatError.
C11_RaisesGradingFormatError ==
    (op = "grade_student_email" /\ AnsweredDefectiveEntry)
    => (outcome.kind = "raise" /\ outcome.exc = "GradingFormatError")

C11_Witness ==
    /\ op = "grade_student_email" /\ AnsweredDefectiveEntry
    /\ Len(GradingAnswer.text.value.scores.l) = 2
    /\ ~DefectiveEntry(GradingAnswer.text.value.scores.l[1])
    /\ GradingAnswer.text.value.scores.l[1].t = "dict"
    /\ LacksName(GradingAnswer.text.value.scores.l[2])
    /\ ~ScoreMissing(GradingAnswer.text.value.scores.l[2])
    /\ ~ScoreNotCoercible(GradingAnswer.text.value.scores.l[2])
    /\ outcome = Raise("KeyError")

\* C12: a grading output that is valid JSON but not an object containing a
\* scores array (an object without a scores key, JSON that is no object) makes
\* grade_student_email raise; it never returns a GradingResult, in particular
\* not one with empty scores and total_score 0.
C12_ShapeFailurePropagates ==
    (op = "grade_student_email" /\ AnsweredJson
        /\ ~HasScoresArray(GradingAnswer.text.value))
    => outcome.kind = "raise"

\* str.split("\n"): the lines of a text
RECURSIVE SplitLines(_, _)
SplitLines(str, line) ==
    IF str = <<>> THEN <<line>>
    ELSE IF Head(str) = "\n" THEN <<line>> \o SplitLines(Tail(str), <<>>)
    ELSE SplitLines(Tail(str), Append(line, Head(str)))

\* the lines the claim expects for the messages k.. of th: for each message a
\* header, the lines of its trimmed body, and a blank line before the next
RECURSIVE Layout(_, _)
Layout(th, k) ==
    IF k > Len(th) THEN <<>>
    ELSE LET body == SplitLines(Strip(th[k].body), <<>>)
         IN <<[header |-> k, line |-> <<>>]>>
            \o [i \in 1..Len(body) |-> [header |-> 0, line |-> body[i]]]
            \o (IF k < Len(th) THEN <<[header |-> 0, line |-> <<>>]>> ELSE <<>>)
            \o Layout(th, k + 1)

\* the layout without the empty lines at its end
RECURSIVE TrimLayout(_)
TrimLayout(lay) ==
    IF lay # <<>> /\ lay[Len(lay)] = [header |-> 0, line |-> <<>>]
    THEN TrimLayout(SubSeq(lay, 1, Len(lay) - 1))
    ELSE lay

HeaderStart(k, sender) ==
    MessageWord \o DecStr(k) \o <<" ", EmDash, " ", "F", "r", "o", "m", ":", " ">>
    \o sender \o <<" ", "|", " ", "S", "u", "b", "j", "e", "c", "t", ":">>

\* the line is the header of message number k: its number, its sender and,
\* after "Subject:", its subject
IsHeaderOf(line, k, message) ==
    /\ IsPrefix(HeaderStart(k, message.sender), line)
    /\ Strip(SubSeq(line, Len(HeaderStart(k, message.sender)) + 1, Len(line)))
            = Strip(message.subject)

HeaderLines(ls) == {i \in 1..Len(ls) : IsPrefix(MessageWord, ls[i])}

\* C13: a thread of n >= 1 messages serializes to n header lines, Message 1 to
\* Message n in thread order, the k-th with the k-th message's sender and
\* subject and followed at once by the lines of that message's trimmed body, a
\* blank line standing between one message and the next.
C13_ThreadLayout ==
    (op = "_thread_to_text" /\ thread # <<>>)
    => LET ls == SplitLines(outcome.value, <<>>)
           lay == TrimLayout(Layout(thread, 1))
       IN /\ Len(ls) = Len(lay)
          /\ Cardinality(HeaderLines(ls)) = Len(thread)
          /\ \A i \in 1..Len(lay) :
                IF lay[i].header > 0
                THEN IsHeaderOf(ls[i], lay[i].header, thread[lay[i].header])
                ELSE ls[i] = lay[i].line

C13_Witness ==
    /\ op = "_thread_to_text"
    /\ Len(thread) = MaxThread
    /\ Strip(thread[1].body) = <<>>
    /\ thread[Len(thread)].body = <<"a", "\n", "\n", "b", " ">>
    /\ Len(SplitLines(outcome.value, <<>>)) = 3 * MaxThread + 1

(***************************************************************************)
(* Claims about the storage transforms, checked under StorageSpec.         *)
(***************************************************************************)
\* the record read back is the one gr was written to
ReadBack == op = "grading_result_from_storage" /\ data = ToStorage(gr)

\* C2 as amended: reading back the record a GradingResult g was written to
\* gives g in every field, totals that differ from the sums of the scores
\* included, except that overall_comment and revision_example come back with
\* leading and trailing whitespace removed; it gives g itself when those two
\* fields carry no such whitespace.
C2_RoundTripUpToStrip ==
    ReadBack
    => /\ outcome = Return([gr EXCEPT !.overall_comment = Strip(@),
                                      !.revision_example = Strip(@)])
       /\ (gr.overall_comment = Strip(gr.overall_comment)
            /\ gr.revision_example = Strip(gr.revision_example))
            => outcome.value = gr

\* C2 as stated: reading back gives g in every field, whatever whitespace
\* overall_comment and revision_example carry.
C2_RoundTripIsIdentity ==
    (ReadBack /\ gr.scores # <<>>) => outcome = Return(gr)

C2_Witness ==
    /\ ReadBack
    /\ Len(gr.scores) = 2
    /\ gr.total_score # SumScore(gr.scores)
    /\ gr.max_total_score # SumMaxScore(gr.scores)
    /\ gr.overall_comment = <<"o", "k">>
    /\ gr.revision_example = Hi
    /\ outcome = Return(gr)

\* C9: a record without total_score (max_total_score) is read with total_score
\* (max_total_score) the sum of the reconstructed scores' score (max_score);
\* with the key present the stored integer is used as it is, whatever the sum.
C9_TotalsDefaultToSums ==
    (op = "grading_result_from_storage" /\ outcome.kind = "return")
    => LET g == outcome.value
       IN /\ "total_score" \notin data.keys => g.total_score = SumScore(g.scores)
          /\ "max_total_score" \notin data.keys
                => g.max_total_score = SumMaxScore(g.scores)
          /\ ("total_score" \in data.keys /\ data.total_score.t = "int")
                => g.total_score = data.total_score.i
          /\ ("max_total_score" \in data.keys /\ data.max_total_score.t = "int")
                => g.max_total_score = data.max_total_score.i

C9_Witness ==
    /\ op = "grading_result_from_storage" /\ outcome.kind = "return"
    /\ "total_score" \notin data.keys
    /\ "max_total_score" \in data.keys
    /\ Len(outcome.value.scores) = 2
    /\ outcome.value.total_score = 8
    /\ outcome.value.max_total_score = 1
    /\ SumMaxScore(outcome.value.scores) = 9

(***************************************************************************)
(* Claims about the Streamlit application, checked under AppSpec.          *)
(***************************************************************************)
\* C10: after any sequence of "Grade my email" attempts the stored latest
\* result is the result of the most recent evaluate_and_respond that returned,
\* with the key and body it was run for; an attempt that raised leaves it as
\* it was, and nothing partial is ever stored.
C10_LatestIsLastSuccess ==
    /\ session.latest_result = evaluated
    /\ rerun.evaluation = "stored"
        => /\ session.latest_result.present
           /\ session.latest_result.cache_key = rerun.cache_key
           /\ session.latest_result.student_body = Strip(session.draft_email)

C10_Witness ==
    /\ rerun.evaluation = "failed"
    /\ session.latest_result.present
    /\ session.latest_result.cache_key # rerun.cache_key
    /\ session.latest_result = evaluated

\* the run reached _ensure_starter_thread
EnsureCalled(r) == r.stopped \in {"", "starter_error"}

\* C14: a run that asks for the starter thread of a key that is cached, without
\* having reset that key, gets the cached thread, builds nothing and leaves the
\* cache as it is; a run that asks for a key that is not cached, or was just
\* reset, calls build_starter_thread once and caches what it returned, or
\* caches nothing under the key when the build raised; the entries of the
\* other keys never change.
C14_StarterMemoized ==
    [][LET k == rerun'.cache_key
           cache == session.starter_cache
           after == session'.starter_cache
       IN /\ \A j \in DOMAIN cache \ {k} : j \in DOMAIN after /\ after[j] = cache[j]
          /\ DOMAIN after \subseteq DOMAIN cache \cup {k}
          /\ (EnsureCalled(rerun') /\ k \in DOMAIN cache /\ ~rerun'.reset)
                => /\ ~rerun'.built
                   /\ rerun'.stopped = ""
                   /\ rerun'.starter = cache[k]
                   /\ after = cache
          /\ (EnsureCalled(rerun') /\ (k \notin DOMAIN cache \/ rerun'.reset))
                => /\ rerun'.built
                   /\ IF rerun'.stopped = "starter_error"
                      THEN k \notin DOMAIN after
                      ELSE k \in DOMAIN after /\ after[k] = rerun'.starter
          /\ ~EnsureCalled(rerun')
                => /\ ~rerun'.built
                   /\ rerun'.reset => k \notin DOMAIN after
                   /\ ~rerun'.reset => after = cache]_vars

\* a run served from the cache a thread the backend had generated, with another
\* key cached beside it
C14_Witness ==
    /\ rerun.stopped = "" /\ ~rerun.built /\ ~rerun.reset
    /\ rerun.cache_key \in DOMAIN session.starter_cache
    /\ rerun.starter = session.starter_cache[rerun.cache_key]
    /\ rerun.starter[1].body = PaddedHi
    /\ Cardinality(DOMAIN session.starter_cache) >= 2

\* C15: evaluate_and_respond leaves the starter thread it was handed as it
\* was, so whatever was graded, every cached starter thread is exactly one
\* message, the starter message of its scenario.
C15_StarterThreadKeepsOneMessage ==
    /\ \A k \in DOMAIN session.starter_cache :
            /\ Len(session.starter_cache[k]) = 1
            /\ session.starter_cache[k][1].sender # StudentWord
    /\ rerun.evaluation \in {"stored", "failed"}
            => session.starter_cache[rerun.cache_key] = rerun.starter

\* a second grading under a key: the thread came from the cache, was graded and
\* replied to, and is still the one message
C15_Witness ==
    /\ rerun.evaluation = "stored"
    /\ ~rerun.built
    /\ Len(session.starter_cache[rerun.cache_key]) = 1
    /\ session.starter_cache[rerun.cache_key][1].body = PaddedHi
    /\ session.latest_result.present

\* C16: a run renders a grading result only if the stored latest result was
\* stored under the run's cache key, and then renders that one, a result
\* evaluate_and_respond returned under that key; a result stored under another
\* key is not shown.  The session holds one latest result at most: the one last
\* stored.
C16_RendersOnlyCurrentKey ==
    /\ rerun.rendered.present
        => /\ rerun.rendered = session.latest_result
           /\ rerun.rendered.cache_key = rerun.cache_key
           /\ rerun.rendered = evaluated
    /\ (session.latest_result.present
            /\ session.latest_result.cache_key # rerun.cache_key)
        => ~rerun.rendered.present
    /\ session.latest_result \in {NoLatest, evaluated}

\* the selection changed after a result was stored: the run went through to the
\* end and rendered nothing
C16_Witness ==
    /\ rerun.stopped = "" /\ rerun.evaluation = "none"
    /\ session.latest_result.present
    /\ session.latest_result.cache_key # rerun.cache_key
    /\ ~rerun.rendered.present

(***************************************************************************)
(* Claims about both programs, checked under ProgramSpec.                  *)
(***************************************************************************)
GradingOrReply == {"grade_student_email", "counterpart_reply"}

\* the student's email as typed to the command-line program is empty or blank
TypedNothing == Strip(Join(<<"\n">>, ReadLines(stdin, <<>>))) = <<>>

\* C17: an empty or whitespace-only student email never reaches the model.  In
\* the application, "Grade my email" with such a draft calls
\* evaluate_and_respond not at all and leaves the stored result as it was; the
\* command-line program ends with an exit, SystemExit once the starter thread
\* was built, having made no grading and no reply invocation.
C17_BlankEmailNeverGraded ==
    [][/\ (rerun'.stopped = "" /\ rerun'.evaluation # "none"
                /\ Strip(session'.draft_email) = <<>>)
            => /\ rerun'.evaluation = "warning"
               /\ session'.latest_result = session.latest_result
               /\ evaluated' = evaluated
       /\ (op' = "main" /\ Strip(Join(<<"\n">>, ReadLines(stdin', <<>>))) = <<>>)
            => /\ outcome'.kind = "raise"
               /\ \A k \in 1..Len(invocations') :
                        invocations'[k].task \notin GradingOrReply
               /\ (invocations' = <<>> \/ backend'.counterpart_prompt.ok)
                        => outcome' = Raise("SystemExit")]_vars

\* blank lines and a "." were typed after the starter email was generated: the
\* program exited with the one invocation made
C17_Witness ==
    /\ op = "main"
    /\ Len(stdin) = 3
    /\ TypedNothing
    /\ Len(invocations) = 1
    /\ outcome = Raise("SystemExit")

====
